---- MODULE Spec2Model ----
(***************************************************************************)
(* A model of the MCP practice server: the JSON-RPC 2.0 dispatcher, its    *)
(* method handlers, the tool/resource registry and the stdin/stdout        *)
(* transport loop (src/unnamed/part_000), together with the handlers of    *)
(* the second, partial copy of the server (src/mcp_server/cmd/mcp/main.go).*)
(*                                                                         *)
(* Go strings are TLA+ strings.  A Go interface{} value decoded from JSON  *)
(* (and a JSON document on a line) is a tagged record: [t |-> "null"],     *)
(* [t |-> "string", v |-> s], [t |-> "number", v |-> n],                   *)
(* [t |-> "array", v |-> seq], [t |-> "object", v |-> map].                *)
(***************************************************************************)
EXTENDS Integers, Sequences, FiniteSets, TLC

\* ------------------------------------------------------------------ bounds
\* Most input lines the transport loop reads in one run.
MaxLines == 3
\* Most RegisterTool / RegisterResource calls made on one server.
MaxRegs == 2

\* ------------------------------------------------------- JSON / Go values
Nil == [t |-> "null"]
JStr(s) == [t |-> "string", v |-> s]
JNum(n) == [t |-> "number", v |-> n]
JBool(b) == [t |-> "bool", v |-> b]
JArr(seq) == [t |-> "array", v |-> seq]
JObj(m) == [t |-> "object", v |-> m]
EmptyMap == [k \in {} |-> Nil]

\* m[k] on a Go map[string]interface{}: the zero value (nil) for a missing key.
MapGet(m, k) == IF k \in DOMAIN m THEN m[k] ELSE Nil

\* x.(map[string]interface{}) and x.(string): the "ok" of the type assertion.
IsMap(x) == x.t = "object"
IsString(x) == x.t = "string"

\* strings.HasPrefix
HasPrefix(s, prefix) ==
    /\ Len(s) >= Len(prefix)
    /\ SubSeq(s, 1, Len(prefix)) = prefix

\* The white space strings.TrimSpace removes (the ASCII part that can occur
\* inside one scanned line).
IsSpace(c) == c \in {" ", "\t", "\r"}

\* strings.TrimSpace
RECURSIVE TrimLeft(_)
TrimLeft(s) ==
    IF Len(s) > 0 /\ IsSpace(SubSeq(s, 1, 1))
    THEN TrimLeft(SubSeq(s, 2, Len(s)))
    ELSE s

RECURSIVE TrimRight(_)
TrimRight(s) ==
    IF Len(s) > 0 /\ IsSpace(SubSeq(s, Len(s), Len(s)))
    THEN TrimRight(SubSeq(s, 1, Len(s) - 1))
    ELSE s

TrimSpace(s) == TrimRight(TrimLeft(s))

\* ------------------------------------------------------------ structures
\* type Tool struct, type Resource struct
Tool(name, description, inputSchema) ==
    [Name |-> name, Description |-> description, InputSchema |-> inputSchema]

Resource(uri, name, description, mimeType) ==
    [URI |-> uri, Name |-> name, Description |-> description, MimeType |-> mimeType]

\* type JSONRPCRequest struct
JSONRPCRequest(jsonrpc, id, method, params) ==
    [JSONRPC |-> jsonrpc, ID |-> id, Method |-> method, Params |-> params]

\* type JSONRPCError struct (Data is never set by the server)
JSONRPCError(code, message) ==
    [Code |-> code, Message |-> message, Data |-> Nil]

\* type JSONRPCResponse struct: a response carrying Result, and one carrying Error
ResultResponse(id, result) ==
    [JSONRPC |-> "2.0", ID |-> id, Result |-> result, Error |-> Nil]

ErrorResponse(id, code, message) ==
    [JSONRPC |-> "2.0", ID |-> id, Result |-> Nil, Error |-> JSONRPCError(code, message)]

\* NewMCPServer: both registries start as empty maps.
NewMCPServer(name, version) ==
    [name |-> name, version |-> version, tools |-> EmptyMap, resources |-> EmptyMap]

\* m[k] = v on a Go map
MapPut(m, k, val) ==
    [x \in (DOMAIN m) \cup {k} |-> IF x = k THEN val ELSE m[x]]

\* RegisterTool that keeps the first tool registered under a name.
RegisterTool_keepsFirst(s, tool) ==
    IF tool.Name \in DOMAIN s.tools
    THEN s
    ELSE [s EXCEPT !.tools = MapPut(s.tools, tool.Name, tool)]

\* RegisterTool: s.tools[tool.Name] = tool
RegisterTool(s, tool) ==
    [s EXCEPT !.tools = MapPut(s.tools, tool.Name, tool)]

\* RegisterResource: s.resources[resource.URI] = resource
RegisterResource(s, resource) ==
    [s EXCEPT !.resources = MapPut(s.resources, resource.URI, resource)]

\* The orders in which a range statement may visit the keys of a Go map:
\* the language leaves the order unspecified, every order can occur.
RangeOrders(m) ==
    {o \in [1..Cardinality(DOMAIN m) -> DOMAIN m] :
        \A i, j \in 1..Cardinality(DOMAIN m) : i # j => o[i] # o[j]}

\* ------------------------------------------- handlers (src/unnamed/part_000)
\* What a handler hands back: the response, and the functions that ran while
\* producing it, in call order.
Ret(resp, calls) == [resp |-> resp, calls |-> calls]

\* handleInitialize: the fixed capability advertisement.
handleInitialize(s, req) ==
    Ret(ResultResponse(req.ID,
            JObj([protocolVersion |-> JStr("2024-11-05"),
                  capabilities |-> JObj(
                      [tools |-> JObj([listChanged |-> JBool(TRUE)]),
                       resources |-> JObj([subscribe |-> JBool(TRUE),
                                           listChanged |-> JBool(TRUE)])]),
                  serverInfo |-> JObj([name |-> JStr(s.name),
                                       version |-> JStr(s.version)])])),
        <<"handleInitialize">>)

\* handleToolsList: append every tool in the order the range statement
\* visits s.tools (order: one of RangeOrders(s.tools)).
handleToolsList(s, req, order) ==
    Ret(ResultResponse(req.ID,
            JObj([tools |-> JArr([i \in 1..Len(order) |-> s.tools[order[i]]])])),
        <<"handleToolsList">>)

\* handleResourcesList: the same over s.resources.
handleResourcesList(s, req, order) ==
    Ret(ResultResponse(req.ID,
            JObj([resources |-> JArr([i \in 1..Len(order) |-> s.resources[order[i]]])])),
        <<"handleResourcesList">>)

\* executeTool whose echo takes an empty message for a missing one.
executeTool_emptyIsMissing(s, toolName, arguments) ==
    IF toolName = "echo"
    THEN IF ~IsMap(arguments)
         THEN JObj([error |-> JStr("Invalid arguments")])
         ELSE IF \/ ~IsString(MapGet(arguments.v, "message"))
                 \/ MapGet(arguments.v, "message").v = ""
              THEN JObj([error |-> JStr("Message is required")])
              ELSE JObj([content |-> JArr(<<
                       JObj([type |-> JStr("text"),
                             text |-> JStr("Echo: " \o MapGet(arguments.v, "message").v)])
                   >>)])
    ELSE JObj([error |-> JStr("Unknown tool")])

\* executeTool: the switch on the tool name; only "echo" has an executor.
executeTool(s, toolName, arguments) ==
    IF toolName = "echo"
    THEN IF ~IsMap(arguments)
         THEN JObj([error |-> JStr("Invalid arguments")])
         ELSE IF ~IsString(MapGet(arguments.v, "message"))
              THEN JObj([error |-> JStr("Message is required")])
              ELSE JObj([content |-> JArr(<<
                       JObj([type |-> JStr("text"),
                             text |-> JStr("Echo: " \o MapGet(arguments.v, "message").v)])
                   >>)])
    ELSE JObj([error |-> JStr("Unknown tool")])

\* handleToolsCall that turns a tool's error payload into a Failure.
handleToolsCall_toolErrorAsFailure(s, req) ==
    IF ~IsMap(req.Params)
    THEN Ret(ErrorResponse(req.ID, -32602, "Invalid parameters"),
             <<"handleToolsCall">>)
    ELSE IF ~IsString(MapGet(req.Params.v, "name"))
    THEN Ret(ErrorResponse(req.ID, -32602, "Tool name is required"),
             <<"handleToolsCall">>)
    ELSE IF MapGet(req.Params.v, "name").v \notin DOMAIN s.tools
    THEN Ret(ErrorResponse(req.ID, -32601, "Tool not found"),
             <<"handleToolsCall">>)
    ELSE IF "error" \in DOMAIN executeTool(s, MapGet(req.Params.v, "name").v,
                                           MapGet(req.Params.v, "arguments")).v
    THEN Ret(ErrorResponse(req.ID, -32602, "Invalid parameters"),
             <<"handleToolsCall", "executeTool">>)
    ELSE Ret(ResultResponse(req.ID,
                 executeTool(s, MapGet(req.Params.v, "name").v,
                             MapGet(req.Params.v, "arguments"))),
             <<"handleToolsCall", "executeTool">>)

\* handleToolsCall that looks the name up before it checks that there is one.
handleToolsCall_lookupFirst(s, req) ==
    IF ~IsMap(req.Params)
    THEN Ret(ErrorResponse(req.ID, -32602, "Invalid parameters"),
             <<"handleToolsCall">>)
    ELSE IF \/ ~IsString(MapGet(req.Params.v, "name"))
            \/ MapGet(req.Params.v, "name").v \notin DOMAIN s.tools
    THEN Ret(ErrorResponse(req.ID, -32601, "Tool not found"),
             <<"handleToolsCall">>)
    ELSE Ret(ResultResponse(req.ID,
                 executeTool(s, MapGet(req.Params.v, "name").v,
                             MapGet(req.Params.v, "arguments"))),
             <<"handleToolsCall", "executeTool">>)

\* handleToolsCall that asks whether the name has an executor, not whether
\* it is registered.
handleToolsCall_executorDecides(s, req) ==
    IF ~IsMap(req.Params)
    THEN Ret(ErrorResponse(req.ID, -32602, "Invalid parameters"),
             <<"handleToolsCall">>)
    ELSE IF ~IsString(MapGet(req.Params.v, "name"))
    THEN Ret(ErrorResponse(req.ID, -32602, "Tool name is required"),
             <<"handleToolsCall">>)
    ELSE IF MapGet(req.Params.v, "name").v # "echo"
    THEN Ret(ErrorResponse(req.ID, -32601, "Tool not found"),
             <<"handleToolsCall">>)
    ELSE Ret(ResultResponse(req.ID,
                 executeTool(s, MapGet(req.Params.v, "name").v,
                             MapGet(req.Params.v, "arguments"))),
             <<"handleToolsCall", "executeTool">>)

\* handleToolsCall
handleToolsCall(s, req) ==
    IF ~IsMap(req.Params)
    THEN Ret(ErrorResponse(req.ID, -32602, "Invalid parameters"),
             <<"handleToolsCall">>)
    ELSE IF ~IsString(MapGet(req.Params.v, "name"))
    THEN Ret(ErrorResponse(req.ID, -32602, "Tool name is required"),
             <<"handleToolsCall">>)
    ELSE IF MapGet(req.Params.v, "name").v \notin DOMAIN s.tools
    THEN Ret(ErrorResponse(req.ID, -32601, "Tool not found"),
             <<"handleToolsCall">>)
    ELSE Ret(ResultResponse(req.ID,
                 executeTool(s, MapGet(req.Params.v, "name").v,
                             MapGet(req.Params.v, "arguments"))),
             <<"handleToolsCall", "executeTool">>)

\* readResource that knows only the file scheme and has no text for another.
readResource_fileOnly(s, uri) ==
    IF HasPrefix(uri, "file://") THEN "Content of " \o uri
    ELSE ""

\* readResource: a placeholder text naming the uri.
readResource(s, uri) ==
    IF HasPrefix(uri, "file://") THEN "Content of " \o uri
    ELSE IF HasPrefix(uri, "https://") THEN "Web content of " \o uri
    ELSE "Unknown resource type"

\* handleResourcesRead whose scheme error leaves the ID unset.
handleResourcesRead_dropsId(s, req) ==
    IF ~IsMap(req.Params)
    THEN Ret(ErrorResponse(req.ID, -32602, "Invalid parameters"),
             <<"handleResourcesRead">>)
    ELSE IF ~IsString(MapGet(req.Params.v, "uri"))
    THEN Ret(ErrorResponse(req.ID, -32602, "URI is required"),
             <<"handleResourcesRead">>)
    ELSE IF ~HasPrefix(MapGet(req.Params.v, "uri").v, "file://")
            /\ ~HasPrefix(MapGet(req.Params.v, "uri").v, "https://")
    THEN Ret(ErrorResponse(Nil, -32602, "Invalid URI scheme"),
             <<"handleResourcesRead">>)
    ELSE Ret(ResultResponse(req.ID,
                 JObj([contents |-> JArr(<<
                     JObj([uri |-> JStr(MapGet(req.Params.v, "uri").v),
                           mimeType |-> JStr("text/plain"),
                           text |-> JStr(readResource(s, MapGet(req.Params.v, "uri").v))])
                 >>)])),
             <<"handleResourcesRead", "readResource">>)

\* handleResourcesRead without its scheme check: every string uri is read.
handleResourcesRead_noSchemeCheck(s, req) ==
    IF ~IsMap(req.Params)
    THEN Ret(ErrorResponse(req.ID, -32602, "Invalid parameters"),
             <<"handleResourcesRead">>)
    ELSE IF ~IsString(MapGet(req.Params.v, "uri"))
    THEN Ret(ErrorResponse(req.ID, -32602, "URI is required"),
             <<"handleResourcesRead">>)
    ELSE Ret(ResultResponse(req.ID,
                 JObj([contents |-> JArr(<<
                     JObj([uri |-> JStr(MapGet(req.Params.v, "uri").v),
                           mimeType |-> JStr("text/plain"),
                           text |-> JStr(readResource(s, MapGet(req.Params.v, "uri").v))])
                 >>)])),
             <<"handleResourcesRead", "readResource">>)

\* handleResourcesRead that reads only the uris found in s.resources.
handleResourcesRead_registeredOnly(s, req) ==
    IF ~IsMap(req.Params)
    THEN Ret(ErrorResponse(req.ID, -32602, "Invalid parameters"),
             <<"handleResourcesRead">>)
    ELSE IF ~IsString(MapGet(req.Params.v, "uri"))
    THEN Ret(ErrorResponse(req.ID, -32602, "URI is required"),
             <<"handleResourcesRead">>)
    ELSE IF ~HasPrefix(MapGet(req.Params.v, "uri").v, "file://")
            /\ ~HasPrefix(MapGet(req.Params.v, "uri").v, "https://")
    THEN Ret(ErrorResponse(req.ID, -32602, "Invalid URI scheme"),
             <<"handleResourcesRead">>)
    ELSE IF MapGet(req.Params.v, "uri").v \notin DOMAIN s.resources
    THEN Ret(ErrorResponse(req.ID, -32601, "Resource not found"),
             <<"handleResourcesRead">>)
    ELSE Ret(ResultResponse(req.ID,
                 JObj([contents |-> JArr(<<
                     JObj([uri |-> JStr(MapGet(req.Params.v, "uri").v),
                           mimeType |-> JStr("text/plain"),
                           text |-> JStr(readResource(s, MapGet(req.Params.v, "uri").v))])
                 >>)])),
             <<"handleResourcesRead", "readResource">>)

\* handleResourcesRead
handleResourcesRead(s, req) ==
    IF ~IsMap(req.Params)
    THEN Ret(ErrorResponse(req.ID, -32602, "Invalid parameters"),
             <<"handleResourcesRead">>)
    ELSE IF ~IsString(MapGet(req.Params.v, "uri"))
    THEN Ret(ErrorResponse(req.ID, -32602, "URI is required"),
             <<"handleResourcesRead">>)
    ELSE IF ~HasPrefix(MapGet(req.Params.v, "uri").v, "file://")
            /\ ~HasPrefix(MapGet(req.Params.v, "uri").v, "https://")
    THEN Ret(ErrorResponse(req.ID, -32602, "Invalid URI scheme"),
             <<"handleResourcesRead">>)
    ELSE Ret(ResultResponse(req.ID,
                 JObj([contents |-> JArr(<<
                     JObj([uri |-> JStr(MapGet(req.Params.v, "uri").v),
                           mimeType |-> JStr("text/plain"),
                           text |-> JStr(readResource(s, MapGet(req.Params.v, "uri").v))])
                 >>)])),
             <<"handleResourcesRead", "readResource">>)

\* The method switch with only its first two cases.
Route_twoCases(s, req, toolOrder, resourceOrder) ==
    CASE req.Method = "initialize" -> handleInitialize(s, req)
      [] req.Method = "tools/list" -> handleToolsList(s, req, toolOrder)
      [] OTHER -> Ret(ErrorResponse(req.ID, -32601, "Method not found"), << >>)

\* The method switch whose default case forgets the Error.
Route_emptyDefault(s, req, toolOrder, resourceOrder) ==
    CASE req.Method = "initialize" -> handleInitialize(s, req)
      [] req.Method = "tools/list" -> handleToolsList(s, req, toolOrder)
      [] req.Method = "tools/call" -> handleToolsCall(s, req)
      [] req.Method = "resources/list" -> handleResourcesList(s, req, resourceOrder)
      [] req.Method = "resources/read" -> handleResourcesRead(s, req)
      [] OTHER -> Ret(ResultResponse(req.ID, Nil), << >>)

\* The method switch of HandleRequest; toolOrder and resourceOrder are the
\* orders in which the list handlers' range statements visit the two maps.
Route(s, req, toolOrder, resourceOrder) ==
    CASE req.Method = "initialize" -> handleInitialize(s, req)
      [] req.Method = "tools/list" -> handleToolsList(s, req, toolOrder)
      [] req.Method = "tools/call" -> handleToolsCall(s, req)
      [] req.Method = "resources/list" -> handleResourcesList(s, req, resourceOrder)
      [] req.Method = "resources/read" -> handleResourcesRead(s, req)
      [] OTHER -> Ret(ErrorResponse(req.ID, -32601, "Method not found"), << >>)

\* HandleRequest without its version check.
HandleRequest_skipsVersionCheck(s, req, toolOrder, resourceOrder) ==
    Route(s, req, toolOrder, resourceOrder)

\* HandleRequest: the version check, then the method switch.
HandleRequest(s, req, toolOrder, resourceOrder) ==
    IF req.JSONRPC # "2.0"
    THEN Ret(ErrorResponse(req.ID, -32600, "Invalid JSON-RPC version"), << >>)
    ELSE Route(s, req, toolOrder, resourceOrder)

\* ------------------------------------------------------ encoding/json
\* A scanned input line is either text that is not a JSON document,
\* [t |-> "text", v |-> s], or one JSON document (a tagged value as above).
TextLine(s) == [t |-> "text", v |-> s]

\* strings.TrimSpace(line) == "": a JSON document has at least one character
\* that is not white space.
IsBlank(l) == l.t = "text" /\ TrimSpace(l.v) = ""

\* How json.Unmarshal fills a string field from the document's member:
\* missing and null leave the zero value, a string is copied, any other
\* JSON type is an UnmarshalTypeError.
StringFieldErr(m, key) == MapGet(m, key).t \notin {"null", "string"}
StringField(m, key) == IF IsString(MapGet(m, key)) THEN MapGet(m, key).v ELSE ""

\* json.Unmarshal([]byte(line), &req): text that is not JSON is a syntax
\* error; null leaves req zero; an object fills the four fields; any other
\* document cannot be stored in a struct.
Unmarshal(l) ==
    IF l.t = "null"
    THEN [err |-> FALSE, req |-> JSONRPCRequest("", Nil, "", Nil)]
    ELSE IF l.t = "object"
    THEN [err |-> StringFieldErr(l.v, "jsonrpc") \/ StringFieldErr(l.v, "method"),
          req |-> JSONRPCRequest(StringField(l.v, "jsonrpc"), MapGet(l.v, "id"),
                                 StringField(l.v, "method"), MapGet(l.v, "params"))]
    ELSE [err |-> TRUE, req |-> JSONRPCRequest("", Nil, "", Nil)]

\* The JSON form of a value held in a response: a Tool or Resource struct
\* becomes an object keyed by its json tags, containers are encoded
\* member by member.
RECURSIVE Encode(_)
Encode(x) ==
    IF "InputSchema" \in DOMAIN x
    THEN JObj([name |-> JStr(x.Name), description |-> JStr(x.Description),
               inputSchema |-> Encode(x.InputSchema)])
    ELSE IF "MimeType" \in DOMAIN x
    THEN JObj([uri |-> JStr(x.URI), name |-> JStr(x.Name),
               description |-> JStr(x.Description), mimeType |-> JStr(x.MimeType)])
    ELSE IF x.t = "array"
    THEN JArr([i \in DOMAIN x.v |-> Encode(x.v[i])])
    ELSE IF x.t = "object"
    THEN JObj([k \in DOMAIN x.v |-> Encode(x.v[k])])
    ELSE x

\* The members of an encoded JSONRPCError: data is omitempty.
EncodeError(e) ==
    JObj([k \in {"code", "message"} \cup (IF e.Data = Nil THEN {} ELSE {"data"}) |->
            CASE k = "code" -> JNum(e.Code)
              [] k = "message" -> JStr(e.Message)
              [] OTHER -> Encode(e.Data)])

\* json.Marshal(resp): jsonrpc and id are always written, result and error
\* are omitempty.  Every value a response can hold is encodable, so err is
\* always nil.
Marshal(resp) ==
    [err |-> FALSE,
     data |-> JObj([k \in {"jsonrpc", "id"}
                          \cup (IF resp.Result = Nil THEN {} ELSE {"result"})
                          \cup (IF resp.Error = Nil THEN {} ELSE {"error"}) |->
                       CASE k = "jsonrpc" -> JStr(resp.JSONRPC)
                         [] k = "id" -> Encode(resp.ID)
                         [] k = "result" -> Encode(resp.Result)
                         [] OTHER -> EncodeError(resp.Error)])]

\* ------------------------- the second copy (src/mcp_server/cmd/mcp/main.go)
\* The file repeats the server's functions under the same names; its
\* definitions carry the prefix mcp_ here.  Its response struct spells the
\* version field JSONPRC but gives it the same json tag, so its responses
\* are built with the constructors above.  It has no RegisterTool, and its
\* main() starts no loop: its functions are modelled as functions, applied
\* to the inputs of the first copy.

\* handleInitialize of main.go
mcp_handleInitialize(s, req) ==
    Ret(ResultResponse(req.ID,
            JObj([protocolVersion |-> JStr("2024-11-05"),
                  capabilities |-> JObj(
                      [tools |-> JObj([listChanged |-> JBool(TRUE)]),
                       resource |-> JObj([subscribe |-> JBool(TRUE),
                                          listChanged |-> JBool(TRUE)])]),
                  serverInfo |-> JObj([name |-> JStr(s.name),
                                       version |-> JStr(s.version)])])),
        <<"handleInitialize">>)

\* handleToolsList of main.go
mcp_handleToolsList(s, req, order) ==
    Ret(ResultResponse(req.ID,
            JObj([tools |-> JArr([i \in 1..Len(order) |-> s.tools[order[i]]])])),
        <<"handleToolsList">>)

\* handleResourcesList of main.go
mcp_handleResourcesList(s, req, order) ==
    Ret(ResultResponse(req.ID,
            JObj([resources |-> JArr([i \in 1..Len(order) |-> s.resources[order[i]]])])),
        <<"handleResourcesList">>)

\* executeTool of main.go
mcp_executeTool(s, toolName, arguments) ==
    IF toolName = "echo"
    THEN IF ~IsMap(arguments)
         THEN JObj([error |-> JStr("Invalid arguments")])
         ELSE IF ~IsString(MapGet(arguments.v, "message"))
              THEN JObj([error |-> JStr("Message is required")])
              ELSE JObj([content |-> JArr(<<
                       JObj([type |-> JStr("text"),
                             text |-> JStr("Echo: " \o MapGet(arguments.v, "message").v)])
                   >>)])
    ELSE JObj([error |-> JStr("Unknown tool")])

\* handleToolsCall of main.go: an unregistered name is answered with -326001.
mcp_handleToolsCall(s, req) ==
    IF ~IsMap(req.Params)
    THEN Ret(ErrorResponse(req.ID, -32602, "Invalid parameters"),
             <<"handleToolsCall">>)
    ELSE IF ~IsString(MapGet(req.Params.v, "name"))
    THEN Ret(ErrorResponse(req.ID, -32602, "Tool name is required"),
             <<"handleToolsCall">>)
    ELSE IF MapGet(req.Params.v, "name").v \notin DOMAIN s.tools
    THEN Ret(ErrorResponse(req.ID, -326001, "Tool not found"),
             <<"handleToolsCall">>)
    ELSE Ret(ResultResponse(req.ID,
                 mcp_executeTool(s, MapGet(req.Params.v, "name").v,
                                 MapGet(req.Params.v, "arguments"))),
             <<"handleToolsCall", "executeTool">>)

\* readResource of main.go
mcp_readResource(s, uri) ==
    IF HasPrefix(uri, "file://") THEN "Content of " \o uri
    ELSE IF HasPrefix(uri, "https://") THEN "Web content of " \o uri
    ELSE "Unknown resoruce type"

\* hadleResourcesRead of main.go: a uri that is not a string is answered
\* with "Invalid parameters".
mcp_hadleResourcesRead(s, req) ==
    IF ~IsMap(req.Params)
    THEN Ret(ErrorResponse(req.ID, -32602, "Invalid parameters"),
             <<"hadleResourcesRead">>)
    ELSE IF ~IsString(MapGet(req.Params.v, "uri"))
    THEN Ret(ErrorResponse(req.ID, -32602, "Invalid parameters"),
             <<"hadleResourcesRead">>)
    ELSE IF ~HasPrefix(MapGet(req.Params.v, "uri").v, "file://")
            /\ ~HasPrefix(MapGet(req.Params.v, "uri").v, "https://")
    THEN Ret(ErrorResponse(req.ID, -32602, "Invalid URI scheme"),
             <<"hadleResourcesRead">>)
    ELSE Ret(ResultResponse(req.ID,
                 JObj([contents |-> JArr(<<
                     JObj([uri |-> JStr(MapGet(req.Params.v, "uri").v),
                           mimeType |-> JStr("text/plain"),
                           text |-> JStr(mcp_readResource(s, MapGet(req.Params.v, "uri").v))])
                 >>)])),
             <<"hadleResourcesRead", "readResource">>)

\* RegisterResource of main.go
mcp_RegisterResource(s, resource) ==
    [s EXCEPT !.resources = MapPut(s.resources, resource.URI, resource)]

\* hadlerRequest of main.go returns for a wrong version and for the two
\* methods its switch names; its body ends after the switch with no return
\* statement, so for any other method it has no result.
mcp_hadlerRequestReturns(req) ==
    req.JSONRPC # "2.0" \/ req.Method \in {"initialize", "tools/list"}

\* hadlerRequest of main.go, where it returns.
mcp_hadlerRequest(s, req, toolOrder) ==
    IF req.JSONRPC # "2.0"
    THEN Ret(ErrorResponse(req.ID, -32600, "Invalid JSON-RPC version"), << >>)
    ELSE CASE req.Method = "initialize" -> mcp_handleInitialize(s, req)
           [] req.Method = "tools/list" -> mcp_handleToolsList(s, req, toolOrder)

\* ------------------------------------------------------- input domains
\* The tools and resources the wiring layer may register: the two main()
\* registers, a second definition under the same key, and one more key.
EchoSchema ==
    JObj([type |-> JStr("object"),
          properties |-> JObj([message |-> JObj(
              [type |-> JStr("string"),
               description |-> JStr("Message to echo back")])]),
          required |-> JArr(<<JStr("message")>>)])

EchoTool == Tool("echo", "Echo back the provided message", EchoSchema)
ExampleResource ==
    Resource("file:///example.txt", "Example File", "An example text file", "text/plain")

Tools ==
    {EchoTool,
     Tool("echo", "Echo, registered again", JObj(EmptyMap)),
     Tool("calc", "A tool without an executor", JObj(EmptyMap))}

Resources ==
    {ExampleResource,
     Resource("file:///example.txt", "Example File v2", "Registered again", "text/plain"),
     Resource("https://example.com/r", "Web page", "A web resource", "text/html")}

\* Request ids: absent/null, a number, a string.
IDs == {Nil, JNum(1), JStr("a")}

\* jsonrpc values: absent or empty, a wrong version, the right one.
Versions == {"", "1.0", "2.0"}

\* Method names: the five supported ones, an unknown one, none.
Methods ==
    {"initialize", "tools/list", "tools/call", "resources/list", "resources/read",
     "ping", ""}

\* The map m without the members whose value is Absent: a document that
\* leaves those members out.
Absent == [t |-> "absent"]
MapOf(m) == [k \in {x \in DOMAIN m : m[x] # Absent} |-> m[k]]

NameValues == {Absent, JNum(5), JStr("echo"), JStr("calc"), JStr("nope")}
ArgumentValues ==
    {Absent, JStr("x"), JObj(EmptyMap), JObj([message |-> JNum(7)]),
     JObj([message |-> JStr("hi")]), JObj([message |-> JStr("")])}
UriValues ==
    {JNum(3), JStr(""), JStr("ftp://x"), JStr("file:/"), JStr("file:///a.txt"),
     JStr("file:///example.txt"), JStr("https://x")}

ToolsCallParams ==
    {JObj(MapOf([name |-> n, arguments |-> a])) :
        n \in NameValues, a \in ArgumentValues}
ResourcesReadParams == {JObj([uri |-> u]) : u \in UriValues}

\* params values: missing, not an object, and the objects above.
ParamValues ==
    {Nil, JStr("p"), JArr(<< >>)} \cup ToolsCallParams \cup ResourcesReadParams

\* The requests HandleRequest is applied to.
Requests ==
    {JSONRPCRequest(j, i, m, p) :
        j \in Versions, i \in IDs, m \in Methods, p \in ParamValues}

\* A request document as a client writes it on one line.
RequestLine(j, i, m, p) ==
    JObj(MapOf([jsonrpc |-> j, id |-> i, method |-> m, params |-> p]))

\* The lines the transport loop may read: blank ones, text that is not JSON,
\* the document null, a request whose jsonrpc is not a string, and requests
\* of every method and outcome.
Lines ==
    {TextLine(""), TextLine("  \t"), TextLine("not json"),
     Nil,
     RequestLine(JNum(2), JNum(1), JStr("initialize"), Absent),
     RequestLine(JStr("1.0"), JNum(1), JStr("initialize"), Absent),
     RequestLine(JStr("2.0"), JNum(1), JStr("initialize"), Absent),
     RequestLine(JStr("2.0"), JStr("a"), JStr("initialize"), JObj(EmptyMap)),
     RequestLine(JStr("2.0"), JStr("a"), JStr("tools/list"), Absent),
     RequestLine(JStr("2.0"), JNum(1), JStr("resources/list"), Absent),
     RequestLine(JStr("2.0"), JStr("a"), JStr("ping"), Absent),
     RequestLine(JStr("2.0"), JNum(1), JStr("tools/call"),
                 JObj([name |-> JStr("echo"),
                       arguments |-> JObj([message |-> JStr("hi")])])),
     RequestLine(JStr("2.0"), JStr("a"), JStr("tools/call"),
                 JObj([name |-> JStr("echo"), arguments |-> JObj(EmptyMap)])),
     RequestLine(JStr("2.0"), Absent, JStr("tools/call"),
                 JObj([name |-> JStr("nope")])),
     RequestLine(JStr("2.0"), JNum(1), JStr("resources/read"),
                 JObj([uri |-> JStr("file:///a.txt")])),
     RequestLine(JStr("2.0"), JStr("a"), JStr("resources/read"),
                 JObj([uri |-> JStr("ftp://x")])),
     RequestLine(JStr("2.0"), JStr("a"), JStr("resources/read"), JObj(EmptyMap))}

\* ---------------------------------------------------------------- state
VARIABLES
    server,     \* the MCPServer: name, version, tools, resources
    registered, \* the Register calls made so far: their arguments, in call order
    pc,         \* "main": before the loop; "called": a handler has returned;
                \* "scan": Run is at scanner.Scan(); "line": Run holds a
                \* scanned line; "done": Run has returned
    line,       \* the line scanner.Text() returned
    req,        \* the request last decoded or handed to HandleRequest
    resp,       \* the response HandleRequest returned for req
    calls,      \* the functions that ran to produce resp
    consumed,   \* every line read from standard input so far
    stdout,     \* the lines written to standard output
    stderr      \* the messages logged

vars == <<server, registered, pc, line, req, resp, calls, consumed, stdout, stderr>>

NoRequest == JSONRPCRequest("", Nil, "", Nil)
NoResponse == [JSONRPC |-> "", ID |-> Nil, Result |-> Nil, Error |-> Nil]

\* main() up to its first Register call: NewMCPServer("CustomMCPServer", "1.0.0").
Init ==
    /\ server = NewMCPServer("CustomMCPServer", "1.0.0")
    /\ registered = << >>
    /\ pc = "main"
    /\ line = TextLine("")
    /\ req = NoRequest
    /\ resp = NoResponse
    /\ calls = << >>
    /\ consumed = << >>
    /\ stdout = << >>
    /\ stderr = << >>

\* main() from its first Register call to server.Run(): the echo tool and the
\* example resource are registered, then the transport loop starts.
Main ==
    /\ pc = "main"
    /\ registered = << >>
    /\ server' = RegisterResource(RegisterTool(server, EchoTool), ExampleResource)
    /\ registered' = <<EchoTool, ExampleResource>>
    /\ pc' = "scan"
    /\ UNCHANGED <<line, req, resp, calls, consumed, stdout, stderr>>

\* scanner.Scan() returns true: one more line of input.
RunScan ==
    /\ pc = "scan"
    /\ Len(consumed) < MaxLines
    /\ \E l \in Lines :
        /\ line' = l
        /\ consumed' = Append(consumed, l)
    /\ pc' = "line"
    /\ UNCHANGED <<server, registered, req, resp, calls, stdout, stderr>>

\* scanner.Scan() returns false at end of input: scanner.Err() is nil.
RunEOF ==
    /\ pc = "scan"
    /\ pc' = "done"
    /\ UNCHANGED <<server, registered, line, req, resp, calls, consumed, stdout, stderr>>

\* scanner.Scan() returns false on a read error (or a line over the
\* scanner's token limit): the error is logged after the loop.
RunScanError ==
    /\ pc = "scan"
    /\ pc' = "done"
    /\ stderr' = Append(stderr, "Scanner error")
    /\ UNCHANGED <<server, registered, line, req, resp, calls, consumed, stdout>>

\* The body of the loop for a blank line: continue.
RunSkipBlank ==
    /\ pc = "line"
    /\ IsBlank(line)
    /\ pc' = "scan"
    /\ UNCHANGED <<server, registered, line, req, resp, calls, consumed, stdout, stderr>>

\* The body of the loop for a rejected line, leaving the loop instead of
\* continuing it.
RunDropUnparsable_stops ==
    /\ pc = "line"
    /\ ~IsBlank(line)
    /\ Unmarshal(line).err
    /\ stderr' = Append(stderr, "JSON parsing error")
    /\ pc' = "done"
    /\ UNCHANGED <<server, registered, line, req, resp, calls, consumed, stdout>>

\* The body of the loop for a line json.Unmarshal rejects: log, continue.
RunDropUnparsable ==
    /\ pc = "line"
    /\ ~IsBlank(line)
    /\ Unmarshal(line).err
    /\ stderr' = Append(stderr, "JSON parsing error")
    /\ pc' = "scan"
    /\ UNCHANGED <<server, registered, line, req, resp, calls, consumed, stdout>>

\* The body of the loop for a line that decodes, writing only the responses
\* that carry a Result.
RunRespond_skipsFailures ==
    /\ pc = "line"
    /\ ~IsBlank(line)
    /\ ~Unmarshal(line).err
    /\ \E toolOrder \in RangeOrders(server.tools),
          resourceOrder \in RangeOrders(server.resources) :
        \E r \in {HandleRequest(server, Unmarshal(line).req, toolOrder, resourceOrder)} :
            /\ req' = Unmarshal(line).req
            /\ resp' = r.resp
            /\ calls' = r.calls
            /\ IF ~Marshal(r.resp).err /\ r.resp.Error = Nil
               THEN /\ stdout' = Append(stdout, Marshal(r.resp).data)
                    /\ UNCHANGED stderr
               ELSE /\ stderr' = Append(stderr, "JSON marshaling error")
                    /\ UNCHANGED stdout
    /\ pc' = "scan"
    /\ UNCHANGED <<server, registered, line, consumed>>

\* The body of the loop for a line that decodes, with a server that
\* accepts initialize once and refuses it afterwards.
RunRespond_initializeOnce ==
    /\ pc = "line"
    /\ ~IsBlank(line)
    /\ ~Unmarshal(line).err
    /\ \E toolOrder \in RangeOrders(server.tools),
          resourceOrder \in RangeOrders(server.resources) :
        LET r0 == Unmarshal(line).req
            initialized ==
                \E i \in 1..(Len(consumed) - 1) :
                    /\ ~IsBlank(consumed[i])
                    /\ ~Unmarshal(consumed[i]).err
                    /\ Unmarshal(consumed[i]).req.JSONRPC = "2.0"
                    /\ Unmarshal(consumed[i]).req.Method = "initialize"
            r == IF r0.JSONRPC = "2.0" /\ r0.Method = "initialize" /\ initialized
                 THEN Ret(ErrorResponse(r0.ID, -32600, "Already initialized"), << >>)
                 ELSE HandleRequest(server, r0, toolOrder, resourceOrder)
        IN  /\ req' = r0
            /\ resp' = r.resp
            /\ calls' = r.calls
            /\ IF ~Marshal(r.resp).err
               THEN /\ stdout' = Append(stdout, Marshal(r.resp).data)
                    /\ UNCHANGED stderr
               ELSE /\ stderr' = Append(stderr, "JSON marshaling error")
                    /\ UNCHANGED stdout
    /\ pc' = "scan"
    /\ UNCHANGED <<server, registered, line, consumed>>

\* The body of the loop for a line that decodes, with a server that serves
\* the tool and resource methods only after an initialize request.
RunRespond_requiresInitialize ==
    /\ pc = "line"
    /\ ~IsBlank(line)
    /\ ~Unmarshal(line).err
    /\ \E toolOrder \in RangeOrders(server.tools),
          resourceOrder \in RangeOrders(server.resources) :
        LET r0 == Unmarshal(line).req
            initialized ==
                \E i \in 1..(Len(consumed) - 1) :
                    /\ ~IsBlank(consumed[i])
                    /\ ~Unmarshal(consumed[i]).err
                    /\ Unmarshal(consumed[i]).req.JSONRPC = "2.0"
                    /\ Unmarshal(consumed[i]).req.Method = "initialize"
            r == IF /\ r0.JSONRPC = "2.0"
                    /\ r0.Method \in {"tools/list", "tools/call",
                                      "resources/list", "resources/read"}
                    /\ ~initialized
                 THEN Ret(ErrorResponse(r0.ID, -32002, "Server not initialized"), << >>)
                 ELSE HandleRequest(server, r0, toolOrder, resourceOrder)
        IN  /\ req' = r0
            /\ resp' = r.resp
            /\ calls' = r.calls
            /\ IF ~Marshal(r.resp).err
               THEN /\ stdout' = Append(stdout, Marshal(r.resp).data)
                    /\ UNCHANGED stderr
               ELSE /\ stderr' = Append(stderr, "JSON marshaling error")
                    /\ UNCHANGED stdout
    /\ pc' = "scan"
    /\ UNCHANGED <<server, registered, line, consumed>>

\* The body of the loop for a line that decodes, with a tools/call that
\* enters the name it did not find into s.tools.
RunRespond_registersCalledTool ==
    /\ pc = "line"
    /\ ~IsBlank(line)
    /\ ~Unmarshal(line).err
    /\ \E toolOrder \in RangeOrders(server.tools),
          resourceOrder \in RangeOrders(server.resources) :
        LET r0 == Unmarshal(line).req
            r == HandleRequest(server, r0, toolOrder, resourceOrder)
        IN  /\ req' = r0
            /\ resp' = r.resp
            /\ calls' = r.calls
            /\ server' =
                   IF /\ r0.JSONRPC = "2.0" /\ r0.Method = "tools/call"
                      /\ IsMap(r0.Params) /\ IsString(MapGet(r0.Params.v, "name"))
                      /\ MapGet(r0.Params.v, "name").v \notin DOMAIN server.tools
                   THEN RegisterTool(server,
                            Tool(MapGet(r0.Params.v, "name").v, "", JObj(EmptyMap)))
                   ELSE server
            /\ IF ~Marshal(r.resp).err
               THEN /\ stdout' = Append(stdout, Marshal(r.resp).data)
                    /\ UNCHANGED stderr
               ELSE /\ stderr' = Append(stderr, "JSON marshaling error")
                    /\ UNCHANGED stdout
    /\ pc' = "scan"
    /\ UNCHANGED <<registered, line, consumed>>

\* The body of the loop for a line that decodes, returning from Run after
\* it has written a Failure.
RunRespond_exitsOnFailure ==
    /\ pc = "line"
    /\ ~IsBlank(line)
    /\ ~Unmarshal(line).err
    /\ \E toolOrder \in RangeOrders(server.tools),
          resourceOrder \in RangeOrders(server.resources) :
        \E r \in {HandleRequest(server, Unmarshal(line).req, toolOrder, resourceOrder)} :
            /\ req' = Unmarshal(line).req
            /\ resp' = r.resp
            /\ calls' = r.calls
            /\ pc' = IF r.resp.Error # Nil THEN "done" ELSE "scan"
            /\ IF ~Marshal(r.resp).err
               THEN /\ stdout' = Append(stdout, Marshal(r.resp).data)
                    /\ UNCHANGED stderr
               ELSE /\ stderr' = Append(stderr, "JSON marshaling error")
                    /\ UNCHANGED stdout
    /\ UNCHANGED <<server, registered, line, consumed>>

\* The body of the loop for a line that decodes: HandleRequest, json.Marshal,
\* and fmt.Println of the encoded response (or a log entry if encoding fails).
RunRespond ==
    /\ pc = "line"
    /\ ~IsBlank(line)
    /\ ~Unmarshal(line).err
    /\ \E toolOrder \in RangeOrders(server.tools),
          resourceOrder \in RangeOrders(server.resources) :
        \E r \in {HandleRequest(server, Unmarshal(line).req, toolOrder, resourceOrder)} :
            /\ req' = Unmarshal(line).req
            /\ resp' = r.resp
            /\ calls' = r.calls
            /\ IF ~Marshal(r.resp).err
               THEN /\ stdout' = Append(stdout, Marshal(r.resp).data)
                    /\ UNCHANGED stderr
               ELSE /\ stderr' = Append(stderr, "JSON marshaling error")
                    /\ UNCHANGED stdout
    /\ pc' = "scan"
    /\ UNCHANGED <<server, registered, line, consumed>>

\* The program: main() wires the registry and runs the transport loop.
Next ==
    \/ Main
    \/ RunScan
    \/ RunEOF
    \/ RunScanError
    \/ RunSkipBlank
    \/ RunDropUnparsable
    \/ RunRespond

Spec == Init /\ [][Next]_vars

\* The program on a finite input: Run is one sequential loop, so whichever
\* step is possible is taken; a blocked read ends when the input does.
SpecLive == Init /\ [][Next]_vars /\ WF_vars(Next)

\* RegisterTool called on the server by a wiring layer.
CallRegisterTool ==
    /\ pc = "main"
    /\ Len(registered) < MaxRegs
    /\ \E tool \in Tools :
        /\ server' = RegisterTool(server, tool)
        /\ registered' = Append(registered, tool)
    /\ UNCHANGED <<pc, line, req, resp, calls, consumed, stdout, stderr>>

\* RegisterResource called on the server by a wiring layer.
CallRegisterResource ==
    /\ pc = "main"
    /\ Len(registered) < MaxRegs
    /\ \E resource \in Resources :
        /\ server' = RegisterResource(server, resource)
        /\ registered' = Append(registered, resource)
    /\ UNCHANGED <<pc, line, req, resp, calls, consumed, stdout, stderr>>

\* HandleRequest applied to one request, for any registry the wiring built.
CallHandleRequest ==
    /\ pc = "main"
    /\ \E r \in Requests :
       \E toolOrder \in RangeOrders(server.tools),
          resourceOrder \in RangeOrders(server.resources) :
        /\ req' = r
        /\ resp' = HandleRequest(server, r, toolOrder, resourceOrder).resp
        /\ calls' = HandleRequest(server, r, toolOrder, resourceOrder).calls
    /\ pc' = "called"
    /\ UNCHANGED <<server, registered, line, consumed, stdout, stderr>>

\* The same request handed to HandleRequest once more.
CallAgain ==
    /\ pc = "called"
    /\ \E toolOrder \in RangeOrders(server.tools),
          resourceOrder \in RangeOrders(server.resources) :
        /\ resp' = HandleRequest(server, req, toolOrder, resourceOrder).resp
        /\ calls' = HandleRequest(server, req, toolOrder, resourceOrder).calls
    /\ UNCHANGED <<server, registered, pc, line, req, consumed, stdout, stderr>>

\* The caller is done with the response.
CallReturn ==
    /\ pc = "called"
    /\ pc' = "main"
    /\ req' = NoRequest
    /\ resp' = NoResponse
    /\ calls' = << >>
    /\ UNCHANGED <<server, registered, line, consumed, stdout, stderr>>

NextDispatch ==
    \/ CallRegisterTool
    \/ CallRegisterResource
    \/ CallHandleRequest
    \/ CallAgain
    \/ CallReturn

\* The registry and the dispatcher as functions: any Register calls, then
\* every request against the registry they built.
SpecDispatch == Init /\ [][NextDispatch]_vars

\* ------------------------------------- the functions of main.go, applied
\* RegisterResource of main.go applied to the server.
McpRegisterResource ==
    /\ pc = "main"
    /\ Len(registered) < MaxRegs
    /\ \E resource \in Resources :
        /\ server' = mcp_RegisterResource(server, resource)
        /\ registered' = Append(registered, resource)
    /\ UNCHANGED <<pc, line, req, resp, calls, consumed, stdout, stderr>>

\* hadlerRequest of main.go applied to a request it returns for.
McpHadlerRequest ==
    /\ pc = "main"
    /\ \E r \in Requests, toolOrder \in RangeOrders(server.tools) :
        /\ mcp_hadlerRequestReturns(r)
        /\ req' = r
        /\ resp' = mcp_hadlerRequest(server, r, toolOrder).resp
        /\ calls' = mcp_hadlerRequest(server, r, toolOrder).calls
    /\ pc' = "called"
    /\ UNCHANGED <<server, registered, line, consumed, stdout, stderr>>

\* handleToolsCall of main.go applied to a tools/call request.
McpHandleToolsCall ==
    /\ pc = "main"
    /\ \E r \in Requests :
        /\ r.JSONRPC = "2.0"
        /\ r.Method = "tools/call"
        /\ req' = r
        /\ resp' = mcp_handleToolsCall(server, r).resp
        /\ calls' = mcp_handleToolsCall(server, r).calls
    /\ pc' = "called"
    /\ UNCHANGED <<server, registered, line, consumed, stdout, stderr>>

\* handleResourcesList of main.go applied to a resources/list request.
McpHandleResourcesList ==
    /\ pc = "main"
    /\ \E r \in Requests, resourceOrder \in RangeOrders(server.resources) :
        /\ r.JSONRPC = "2.0"
        /\ r.Method = "resources/list"
        /\ req' = r
        /\ resp' = mcp_handleResourcesList(server, r, resourceOrder).resp
        /\ calls' = mcp_handleResourcesList(server, r, resourceOrder).calls
    /\ pc' = "called"
    /\ UNCHANGED <<server, registered, line, consumed, stdout, stderr>>

\* hadleResourcesRead of main.go applied to a resources/read request.
McpHadleResourcesRead ==
    /\ pc = "main"
    /\ \E r \in Requests :
        /\ r.JSONRPC = "2.0"
        /\ r.Method = "resources/read"
        /\ req' = r
        /\ resp' = mcp_hadleResourcesRead(server, r).resp
        /\ calls' = mcp_hadleResourcesRead(server, r).calls
    /\ pc' = "called"
    /\ UNCHANGED <<server, registered, line, consumed, stdout, stderr>>

NextMcp ==
    \/ McpRegisterResource
    \/ McpHadlerRequest
    \/ McpHandleToolsCall
    \/ McpHandleResourcesList
    \/ McpHadleResourcesRead
    \/ CallReturn

\* The functions of main.go, each applied to every request of its method.
SpecMcp == Init /\ [][NextMcp]_vars

\* ------------------------------------------------------------ properties
\* The two outcomes of a response.
IsFailure(r) == r.Error # Nil /\ r.Result = Nil
IsResult(r) == r.Error = Nil /\ r.Result # Nil

\* The handler each supported method belongs to.
Handlers ==
    [m \in {"initialize", "tools/list", "tools/call", "resources/list", "resources/read"} |->
        CASE m = "initialize" -> "handleInitialize"
          [] m = "tools/list" -> "handleToolsList"
          [] m = "tools/call" -> "handleToolsCall"
          [] m = "resources/list" -> "handleResourcesList"
          [] OTHER -> "handleResourcesRead"]

\* C1: a request whose jsonrpc is not "2.0" is answered with a Failure of
\* code -32600 whatever its method and params, and no method handler runs.
C1_BadVersionRejected ==
    (pc = "called" /\ req.JSONRPC # "2.0") =>
        /\ IsFailure(resp)
        /\ resp.Error.Code = -32600
        /\ calls = << >>

\* An unknown method with a wrong version has been answered with -32600.
C1_Witness ==
    /\ pc = "called"
    /\ req.JSONRPC = "1.0"
    /\ req.Method = "ping"
    /\ IsFailure(resp)
    /\ resp.Error.Code = -32600

\* C2: with jsonrpc "2.0", each of the five supported methods is routed to
\* its own handler, and any other method name is answered with the Failure
\* -32601 "Method not found" without running a handler.
C2_Routing ==
    (pc = "called" /\ req.JSONRPC = "2.0") =>
        IF req.Method \in DOMAIN Handlers
        THEN calls # << >> /\ Head(calls) = Handlers[req.Method]
        ELSE /\ IsFailure(resp)
             /\ resp.Error.Code = -32601
             /\ resp.Error.Message = "Method not found"
             /\ calls = << >>

\* An unknown method with the right version has been answered with -32601.
C2_Witness ==
    /\ pc = "called"
    /\ req.JSONRPC = "2.0"
    /\ req.Method = "ping"
    /\ IsFailure(resp)
    /\ resp.Error.Code = -32601

\* C3: every response has exactly one of Result and Error set, and so has
\* the line it is encoded to: exactly one of the members result and error.
C3_ExactlyOneOutcome ==
    pc = "called" =>
        /\ (resp.Result = Nil) # (resp.Error = Nil)
        /\ ("result" \in DOMAIN Marshal(resp).data.v)
               # ("error" \in DOMAIN Marshal(resp).data.v)

\* A Failure has been returned and encodes to a line with error and no result.
C3_Witness ==
    /\ pc = "called"
    /\ IsFailure(resp)
    /\ "error" \in DOMAIN Marshal(resp).data.v
    /\ "result" \notin DOMAIN Marshal(resp).data.v

\* C4: every response, on every path, carries the id of its request and the
\* version "2.0", in the struct and on the encoded line.
C4_IdEchoed ==
    pc = "called" =>
        /\ resp.ID = req.ID
        /\ resp.JSONRPC = "2.0"
        /\ Marshal(resp).data.v["id"] = req.ID
        /\ Marshal(resp).data.v["jsonrpc"] = JStr("2.0")

\* A resources/read with a refused scheme and a string id has been answered.
C4_Witness ==
    /\ pc = "called"
    /\ req.JSONRPC = "2.0"
    /\ req.Method = "resources/read"
    /\ req.ID = JStr("a")
    /\ IsFailure(resp)
    /\ resp.Error.Message = "Invalid URI scheme"
    /\ resp.ID = JStr("a")

\* The request is a well-formed tools/call naming a registered tool.
CallsRegisteredTool ==
    /\ pc = "called"
    /\ req.JSONRPC = "2.0"
    /\ req.Method = "tools/call"
    /\ IsMap(req.Params)
    /\ IsString(MapGet(req.Params.v, "name"))
    /\ MapGet(req.Params.v, "name").v \in DOMAIN server.tools

\* The arguments of the request are ones echo cannot complete with.
BadEchoArguments ==
    \/ ~IsMap(MapGet(req.Params.v, "arguments"))
    \/ ~IsString(MapGet(MapGet(req.Params.v, "arguments").v, "message"))

\* C5: tools/call naming a registered tool is never answered with a Failure,
\* whatever the arguments; when echo cannot complete, the response is a
\* Result whose payload holds an error member.
C5_ToolErrorInsideResult ==
    CallsRegisteredTool =>
        /\ IsResult(resp)
        /\ (MapGet(req.Params.v, "name").v = "echo" /\ BadEchoArguments) =>
               (IsMap(resp.Result) /\ "error" \in DOMAIN resp.Result.v)

\* echo is registered and was called with arguments {}: a Result with an error.
C5_Witness ==
    /\ CallsRegisteredTool
    /\ MapGet(req.Params.v, "name").v = "echo"
    /\ MapGet(req.Params.v, "arguments") = JObj(EmptyMap)
    /\ IsResult(resp)
    /\ "error" \in DOMAIN resp.Result.v

\* C6: tools/call whose params is an object with a string name that is no
\* key of the tool registry is answered with the Failure -32601 "Tool not
\* found", and the tool executor does not run.
C6_UnknownToolNotFound ==
    ( /\ pc = "called"
      /\ req.JSONRPC = "2.0"
      /\ req.Method = "tools/call"
      /\ IsMap(req.Params)
      /\ IsString(MapGet(req.Params.v, "name"))
      /\ MapGet(req.Params.v, "name").v \notin DOMAIN server.tools ) =>
        /\ IsFailure(resp)
        /\ resp.Error.Code = -32601
        /\ resp.Error.Message = "Tool not found"
        /\ calls = <<"handleToolsCall">>

\* C7: on an unchanged registry, a list request handled again returns the
\* same response: the tools, and the resources, in the same order.
C7_ListOrderRepeats ==
    [][ ( /\ pc = "called"
          /\ pc' = "called"
          /\ server' = server
          /\ req' = req
          /\ req.JSONRPC = "2.0"
          /\ req.Method \in {"tools/list", "resources/list"} ) =>
            resp' = resp ]_vars

\* The Register calls so far that registered a tool, and a resource.
IsTool(x) == "InputSchema" \in DOMAIN x
IsResource(x) == "MimeType" \in DOMAIN x
ToolNames == {registered[i].Name : i \in {j \in DOMAIN registered : IsTool(registered[j])}}
ResourceURIs == {registered[i].URI : i \in {j \in DOMAIN registered : IsResource(registered[j])}}

\* The argument of the latest Register call for a tool name, for a URI.
LastTool(n) ==
    registered[CHOOSE i \in DOMAIN registered :
        /\ IsTool(registered[i]) /\ registered[i].Name = n
        /\ \A j \in DOMAIN registered :
               (IsTool(registered[j]) /\ registered[j].Name = n) => j <= i]
LastResource(u) ==
    registered[CHOOSE i \in DOMAIN registered :
        /\ IsResource(registered[i]) /\ registered[i].URI = u
        /\ \A j \in DOMAIN registered :
               (IsResource(registered[j]) /\ registered[j].URI = u) => j <= i]

\* l lists, once each, the latest registration of every tool name.
ListsLatestTools(l) ==
    /\ Len(l) = Cardinality(ToolNames)
    /\ \A i \in DOMAIN l : l[i].Name \in ToolNames /\ l[i] = LastTool(l[i].Name)
    /\ \A i, j \in DOMAIN l : i # j => l[i].Name # l[j].Name
    /\ \A n \in ToolNames : \E i \in DOMAIN l : l[i].Name = n

\* l lists, once each, the latest registration of every resource URI.
ListsLatestResources(l) ==
    /\ Len(l) = Cardinality(ResourceURIs)
    /\ \A i \in DOMAIN l : l[i].URI \in ResourceURIs /\ l[i] = LastResource(l[i].URI)
    /\ \A i, j \in DOMAIN l : i # j => l[i].URI # l[j].URI
    /\ \A u \in ResourceURIs : \E i \in DOMAIN l : l[i].URI = u

\* C8: after any Register calls the registry holds one entry per registered
\* name (URI), the latest one registered under it, and tools/list
\* (resources/list) returns exactly these entries, none missing or doubled.
C8_RegistryUniqueAndListed ==
    /\ DOMAIN server.tools = ToolNames
    /\ DOMAIN server.resources = ResourceURIs
    /\ \A n \in ToolNames : server.tools[n] = LastTool(n)
    /\ \A u \in ResourceURIs : server.resources[u] = LastResource(u)
    /\ (pc = "called" /\ req.JSONRPC = "2.0" /\ req.Method = "tools/list") =>
           /\ IsResult(resp)
           /\ ListsLatestTools(resp.Result.v["tools"].v)
    /\ (pc = "called" /\ req.JSONRPC = "2.0" /\ req.Method = "resources/list") =>
           /\ IsResult(resp)
           /\ ListsLatestResources(resp.Result.v["resources"].v)

\* "echo" was registered twice with different tools, and tools/list has
\* returned the second one alone.
C8_Witness ==
    /\ pc = "called"
    /\ req.JSONRPC = "2.0"
    /\ req.Method = "tools/list"
    /\ Len(registered) = 2
    /\ IsTool(registered[1]) /\ IsTool(registered[2])
    /\ registered[1].Name = "echo" /\ registered[2].Name = "echo"
    /\ registered[1] # registered[2]
    /\ resp.Result.v["tools"].v = <<registered[2]>>

\* The line decodes to a request; the line is skipped or dropped.
Parsable(l) == ~IsBlank(l) /\ ~Unmarshal(l).err
Dropped(l) == IsBlank(l) \/ Unmarshal(l).err

\* The lines the server may write in answer to a request line.
Answers(l) ==
    {Marshal(HandleRequest(server, Unmarshal(l).req, toolOrder, resourceOrder).resp).data :
        toolOrder \in RangeOrders(server.tools),
        resourceOrder \in RangeOrders(server.resources)}

\* The lines the loop is through with: all that were read, but for the one
\* it holds while at "line".
Handled == IF pc = "line" THEN SubSeq(consumed, 1, Len(consumed) - 1) ELSE consumed

\* C9: standard output holds exactly one line per request decoded from the
\* lines handled so far, in input order, each the response to its request;
\* when a line has just been read, every earlier request is already answered.
C9_OneResponsePerRequestInOrder ==
    /\ Len(stdout) = Len(SelectSeq(Handled, Parsable))
    /\ \A i \in DOMAIN stdout : stdout[i] \in Answers(SelectSeq(Handled, Parsable)[i])

\* The run ended after a request, a dropped line and a different request: two
\* different responses are on standard output.
C9_Witness ==
    /\ pc = "done"
    /\ Len(consumed) = 3
    /\ Parsable(consumed[1]) /\ Dropped(consumed[2]) /\ Parsable(consumed[3])
    /\ Len(stdout) = 2
    /\ stdout[1] # stdout[2]

\* C10: a blank line and a line that does not decode write nothing and leave
\* the loop at its next read, and every request read, also after such a
\* line, has its response on standard output once its turn is over.
C10_DroppedLinesWriteNothing ==
    /\ [][ (pc = "line" /\ Dropped(line)) => (stdout' = stdout /\ pc' = "scan") ]_vars
    /\ [](pc \in {"scan", "done"} =>
            /\ Len(stdout) = Cardinality({i \in DOMAIN consumed : Parsable(consumed[i])})
            /\ \A i \in DOMAIN consumed : Parsable(consumed[i]) =>
                   \E j \in DOMAIN stdout : stdout[j] \in Answers(consumed[i]))

\* A blank line and an undecodable line were read, then a request, which
\* has been answered; the loop is at its next read.
C10_Witness ==
    /\ pc = "scan"
    /\ Len(consumed) = 3
    /\ IsBlank(consumed[1])
    /\ ~IsBlank(consumed[2]) /\ Unmarshal(consumed[2]).err
    /\ Parsable(consumed[3])
    /\ Len(stdout) = 1
    /\ stdout[1] \in Answers(consumed[3])

\* The request is a tools/call of the registered tool "echo" whose arguments
\* are an object with a string message.
CallsEchoWithMessage ==
    /\ CallsRegisteredTool
    /\ MapGet(req.Params.v, "name").v = "echo"
    /\ IsMap(MapGet(req.Params.v, "arguments"))
    /\ IsString(MapGet(MapGet(req.Params.v, "arguments").v, "message"))

\* The message of such a request.
EchoMessage == MapGet(MapGet(req.Params.v, "arguments").v, "message").v

\* C11: with "echo" registered, tools/call of "echo" with a string message m
\* (the empty string included) returns a Result whose content is the one
\* element {type: "text", text: "Echo: " followed by m}, also on the line.
C11_EchoContent ==
    CallsEchoWithMessage =>
        /\ IsResult(resp)
        /\ DOMAIN resp.Result.v = {"content"}
        /\ Len(resp.Result.v["content"].v) = 1
        /\ resp.Result.v["content"].v[1] =
               JObj([type |-> JStr("text"), text |-> JStr("Echo: " \o EchoMessage)])
        /\ Len(resp.Result.v["content"].v[1].v["text"].v) = 6 + Len(EchoMessage)
        /\ Marshal(resp).data.v["result"] = resp.Result

\* echo was called with the empty message and answered "Echo: ".
C11_Witness ==
    /\ CallsEchoWithMessage
    /\ EchoMessage = ""
    /\ IsResult(resp)
    /\ resp.Result.v["content"].v[1].v["text"] = JStr("Echo: ")

\* The request is a resources/read whose params hold a string uri.
ReadsStringUri ==
    /\ pc = "called"
    /\ req.JSONRPC = "2.0"
    /\ req.Method = "resources/read"
    /\ IsMap(req.Params)
    /\ IsString(MapGet(req.Params.v, "uri"))

\* The uri of such a request, and whether it starts with an allowed scheme.
RequestedUri == MapGet(req.Params.v, "uri").v
AllowedScheme(u) ==
    \/ (Len(u) >= 7 /\ SubSeq(u, 1, 7) = "file://")
    \/ (Len(u) >= 8 /\ SubSeq(u, 1, 8) = "https://")

\* The reader did not run for the response.
ReaderNotInvoked == \A i \in DOMAIN calls : calls[i] # "readResource"

\* C12: resources/read with a string uri that starts with neither "file://"
\* nor "https://" is answered with the Failure -32602 "Invalid URI scheme",
\* and the resource reader does not run.
C12_InvalidUriScheme ==
    (ReadsStringUri /\ ~AllowedScheme(RequestedUri)) =>
        /\ IsFailure(resp)
        /\ resp.Error.Code = -32602
        /\ resp.Error.Message = "Invalid URI scheme"
        /\ ReaderNotInvoked

\* The uri "file:/", which only starts like an allowed scheme, was refused.
C12_Witness ==
    /\ ReadsStringUri
    /\ RequestedUri = "file:/"
    /\ IsFailure(resp)
    /\ resp.Error.Message = "Invalid URI scheme"
    /\ ReaderNotInvoked

\* C13: resources/read with a string uri starting with "file://" or
\* "https://" returns a Result whose contents is one element with the
\* requested uri, mimeType "text/plain" and a text that is not empty.
C13_ReadReturnsContents ==
    (ReadsStringUri /\ AllowedScheme(RequestedUri)) =>
        /\ IsResult(resp)
        /\ DOMAIN resp.Result.v = {"contents"}
        /\ Len(resp.Result.v["contents"].v) = 1
        /\ DOMAIN resp.Result.v["contents"].v[1].v = {"uri", "mimeType", "text"}
        /\ resp.Result.v["contents"].v[1].v["uri"] = JStr(RequestedUri)
        /\ resp.Result.v["contents"].v[1].v["mimeType"] = JStr("text/plain")
        /\ IsString(resp.Result.v["contents"].v[1].v["text"])
        /\ resp.Result.v["contents"].v[1].v["text"].v # ""
        /\ Marshal(resp).data.v["result"] = resp.Result

\* An https uri was read: one contents element with that uri and a text.
C13_Witness ==
    /\ ReadsStringUri
    /\ RequestedUri = "https://x"
    /\ IsResult(resp)
    /\ resp.Result.v["contents"].v[1].v["uri"] = JStr("https://x")
    /\ resp.Result.v["contents"].v[1].v["text"].v # ""

\* The request is a tools/call whose params is not an object, or whose name
\* is missing or not a string.
BadToolsCallParams ==
    /\ pc = "called"
    /\ req.JSONRPC = "2.0"
    /\ req.Method = "tools/call"
    /\ (~IsMap(req.Params) \/ ~IsString(MapGet(req.Params.v, "name")))

\* The executor did not run for the response.
ExecutorNotInvoked == \A i \in DOMAIN calls : calls[i] # "executeTool"

\* C14 as stated: tools/call whose params is not an object, or whose name is
\* missing or not a string, is answered with the Failure -32602 "Invalid
\* parameters", never with -32601, and the executor does not run.
C14_InvalidParametersMessage ==
    BadToolsCallParams =>
        /\ IsFailure(resp)
        /\ resp.Error.Code = -32602
        /\ resp.Error.Message = "Invalid parameters"
        /\ ExecutorNotInvoked

\* C14 as amended: such a request is answered with a Failure of code -32602,
\* with the message "Invalid parameters" when params is not an object and
\* "Tool name is required" when the name is missing or not a string; the
\* registry is not consulted (never -32601) and the executor does not run.
C14_InvalidParamsRejected ==
    BadToolsCallParams =>
        /\ IsFailure(resp)
        /\ resp.Error.Code = -32602
        /\ resp.Error.Message =
               (IF ~IsMap(req.Params) THEN "Invalid parameters" ELSE "Tool name is required")
        /\ calls = <<"handleToolsCall">>
        /\ ExecutorNotInvoked

\* With echo registered, a tools/call that carries arguments and no name was
\* answered with -32602.
C14_Witness ==
    /\ BadToolsCallParams
    /\ IsMap(req.Params)
    /\ "name" \notin DOMAIN req.Params.v
    /\ "arguments" \in DOMAIN req.Params.v
    /\ "echo" \in DOMAIN server.tools
    /\ IsFailure(resp)
    /\ resp.Error.Code = -32602

\* The requests decoded so far, in input order; stdout[k] answers the k-th.
RECURSIVE DecodedOf(_)
DecodedOf(ls) ==
    IF ls = << >> THEN << >>
    ELSE IF Parsable(Head(ls))
         THEN <<Unmarshal(Head(ls)).req>> \o DecodedOf(Tail(ls))
         ELSE DecodedOf(Tail(ls))
Decoded == DecodedOf(Handled)

\* The k-th decoded request is an initialize with the right version.
IsInitialize(k) == Decoded[k].JSONRPC = "2.0" /\ Decoded[k].Method = "initialize"

\* C15: every initialize request, wherever it falls among the requests of a
\* run, gets the same result (the ids apart), and handling it leaves the
\* server's name, version, tools and resources as they were.
C15_InitializeIdempotent ==
    /\ [](LET d == Decoded
              inits == {k \in DOMAIN d : d[k].JSONRPC = "2.0" /\ d[k].Method = "initialize"}
          IN  \A i, j \in inits \cap DOMAIN stdout :
                  /\ "result" \in DOMAIN stdout[i].v
                  /\ "result" \in DOMAIN stdout[j].v
                  /\ stdout[i].v["result"] = stdout[j].v["result"]
                  /\ stdout[i].v["id"] = d[i].ID)
    /\ [][ ( /\ pc = "line"
             /\ Parsable(line)
             /\ Unmarshal(line).req.Method = "initialize" ) =>
               /\ server' = server
               /\ registered' = registered ]_vars

\* initialize was answered first and, after a tools/call, again under
\* another id: two responses with the same result and different ids.
C15_Witness ==
    /\ pc = "scan"
    /\ Len(stdout) = 3
    /\ Len(Decoded) = 3
    /\ IsInitialize(1) /\ Decoded[2].Method = "tools/call" /\ IsInitialize(3)
    /\ stdout[1].v["id"] # stdout[3].v["id"]
    /\ stdout[1].v["result"] = stdout[3].v["result"]

\* An initialize request with the right version has been handled.
InitializeHandled ==
    /\ pc = "called"
    /\ req.JSONRPC = "2.0"
    /\ req.Method = "initialize"

\* C16: the result of initialize is the capability advertisement:
\* protocolVersion "2024-11-05", capabilities with tools {listChanged: true}
\* and resources {subscribe: true, listChanged: true}, and serverInfo with
\* the name and version the server was constructed with.
C16_InitializeAdvertisement ==
    InitializeHandled =>
        /\ IsResult(resp)
        /\ DOMAIN resp.Result.v = {"protocolVersion", "capabilities", "serverInfo"}
        /\ resp.Result.v["protocolVersion"] = JStr("2024-11-05")
        /\ DOMAIN resp.Result.v["capabilities"].v = {"tools", "resources"}
        /\ resp.Result.v["capabilities"].v["tools"] = JObj([listChanged |-> JBool(TRUE)])
        /\ resp.Result.v["capabilities"].v["resources"] =
               JObj([subscribe |-> JBool(TRUE), listChanged |-> JBool(TRUE)])
        /\ resp.Result.v["serverInfo"] =
               JObj([name |-> JStr("CustomMCPServer"), version |-> JStr("1.0.0")])

\* The outcome of an encoded response: its kind, and its error code if any.
Kind(l) == IF "error" \in DOMAIN l.v THEN "Failure" ELSE "Result"
ErrorCode(l) == IF "error" \in DOMAIN l.v THEN l.v["error"].v["code"] ELSE Nil

\* C17: there is no session state: a request is answered with the same kind
\* of outcome and the same error code wherever it stands in a run, whatever
\* requests were handled before it, an initialize among them or not.
C17_NoSessionState ==
    LET d == Decoded
    IN  \A i, j \in DOMAIN stdout \cap DOMAIN d :
            d[i] = d[j] =>
                /\ Kind(stdout[i]) = Kind(stdout[j])
                /\ ErrorCode(stdout[i]) = ErrorCode(stdout[j])
                /\ d[i].Method \notin {"tools/list", "resources/list"} =>
                       stdout[i] = stdout[j]

\* The same tools/call was answered before any initialize and after one,
\* with the same Result.
C17_Witness ==
    /\ pc = "scan"
    /\ Len(stdout) = 3
    /\ Len(Decoded) = 3
    /\ Decoded[1].Method = "tools/call"
    /\ IsInitialize(2)
    /\ Decoded[3] = Decoded[1]
    /\ Kind(stdout[1]) = "Result"
    /\ stdout[3] = stdout[1]

\* C18: handling a request leaves the registry as it is: once the transport
\* loop runs there is no Register call, and without one the tools and the
\* resources stay what main() registered.
C18_RegistryReadOnly ==
    /\ [][ /\ pc # "main" => registered' = registered
           /\ registered' = registered =>
                  /\ server'.tools = server.tools
                  /\ server'.resources = server.resources ]_vars
    /\ [](pc # "main" =>
            /\ registered = <<EchoTool, ExampleResource>>
            /\ server.tools = [n \in {"echo"} |-> EchoTool]
            /\ server.resources = [u \in {"file:///example.txt"} |-> ExampleResource])

\* A tools/call of an unregistered name, a request with a wrong version and
\* a resources/read were answered; the registry is the one main() built.
C18_Witness ==
    /\ pc = "done"
    /\ Len(stdout) = 3
    /\ Len(Decoded) = 3
    /\ Decoded[1].Method = "tools/call"
    /\ ErrorCode(stdout[1]) = JNum(-32601)
    /\ ErrorCode(stdout[2]) = JNum(-32600)
    /\ Decoded[3].Method = "resources/read"
    /\ DOMAIN server.tools = {"echo"}
    /\ DOMAIN server.resources = {"file:///example.txt"}

\* The line is one the loop logs as a parse error.
Undecodable(l) == ~IsBlank(l) /\ Unmarshal(l).err

\* C19: on a finite input the loop terminates; Run returns only from its
\* read, at end of input or on a read error, never from the handling of a
\* line, whatever the outcome; and every line read is handled once: answered
\* with one response or dropped, and not taken up again.
C19_LoopTerminates ==
    /\ <>(pc = "done")
    /\ [][ pc' = "done" => (pc = "scan" /\ consumed' = consumed /\ stdout' = stdout) ]_vars
    /\ [][ pc = "line" => (pc' = "scan" /\ consumed' = consumed /\ line' = line
                             /\ Len(stdout') + Len(stderr') = Len(stdout) + Len(stderr)
                                    + (IF IsBlank(line) THEN 0 ELSE 1)) ]_vars
    /\ [](pc = "done" =>
            /\ Len(stdout) = Len(SelectSeq(consumed, Parsable))
            /\ Len(SelectSeq(stderr, LAMBDA e : e = "JSON parsing error"))
                   = Len(SelectSeq(consumed, Undecodable)))

\* Run has returned at end of input after three lines none of which was
\* answered with a Result: a wrong version, an undecodable line, an unknown
\* method.
C19_Witness ==
    /\ pc = "done"
    /\ Len(consumed) = 3
    /\ Len(stdout) = 2
    /\ ErrorCode(stdout[1]) = JNum(-32600)
    /\ Undecodable(consumed[2])
    /\ ErrorCode(stdout[2]) = JNum(-32601)
    /\ stderr = <<"JSON parsing error">>

\* The request is a tools/call whose params is an object with a string name.
CallsNamedTool ==
    /\ pc = "called"
    /\ req.JSONRPC = "2.0"
    /\ req.Method = "tools/call"
    /\ IsMap(req.Params)
    /\ IsString(MapGet(req.Params.v, "name"))

\* The name of such a request.
CalledName == MapGet(req.Params.v, "name").v

\* C20: tools/call returns a Result exactly when the name is registered,
\* whether or not an executor exists for it: a registered tool that is not
\* "echo" returns the Result {error: "Unknown tool"} for any arguments, and
\* "echo" on a server where it is not registered returns the Failure "Tool
\* not found".
C20_MembershipDecidesOutcome ==
    CallsNamedTool =>
        /\ IsResult(resp) <=> CalledName \in DOMAIN server.tools
        /\ IsFailure(resp) <=> CalledName \notin DOMAIN server.tools
        /\ (CalledName \in DOMAIN server.tools /\ CalledName # "echo") =>
               resp.Result = JObj([error |-> JStr("Unknown tool")])
        /\ (CalledName = "echo" /\ "echo" \notin DOMAIN server.tools) =>
               /\ resp.Error.Code = -32601
               /\ resp.Error.Message = "Tool not found"
               /\ ExecutorNotInvoked

\* "calc" is registered and "echo" is not; calc was called with arguments
\* echo would accept and returned the Result {error: "Unknown tool"}.
C20_Witness ==
    /\ CallsNamedTool
    /\ CalledName = "calc"
    /\ DOMAIN server.tools = {"calc"}
    /\ MapGet(req.Params.v, "arguments") = JObj([message |-> JStr("hi")])
    /\ resp.Result = JObj([error |-> JStr("Unknown tool")])

\* A resources/read request with the right version has been handled.
ReadHandled ==
    /\ pc = "called"
    /\ req.JSONRPC = "2.0"
    /\ req.Method = "resources/read"

\* The text the reader gives for a uri of an allowed scheme.
PlaceholderText(u) ==
    IF Len(u) >= 7 /\ SubSeq(u, 1, 7) = "file://"
    THEN "Content of " \o u
    ELSE "Web content of " \o u

\* C21: the response to resources/read is decided by the request alone and
\* not by the resource registry: it is the response a server with no
\* resource registered gives, and a uri of an allowed scheme is read with the
\* same Result whether or not a resource is registered under it.
C21_ReadIgnoresRegistry ==
    ReadHandled =>
        /\ resp = handleResourcesRead(NewMCPServer(server.name, server.version), req).resp
        /\ (ReadsStringUri /\ AllowedScheme(RequestedUri)) =>
               /\ IsResult(resp)
               /\ resp.Result.v["contents"].v[1].v["uri"] = JStr(RequestedUri)
               /\ resp.Result.v["contents"].v[1].v["text"] =
                      JStr(PlaceholderText(RequestedUri))

\* Only the resource https://example.com/r is registered, and the
\* unregistered uri file:///a.txt was read with a Result.
C21_Witness ==
    /\ ReadsStringUri
    /\ RequestedUri = "file:///a.txt"
    /\ DOMAIN server.resources = {"https://example.com/r"}
    /\ IsResult(resp)
    /\ resp.Result.v["contents"].v[1].v["text"] = JStr("Content of file:///a.txt")

====
